---- MODULE Spec2Model ----
(***************************************************************************)
(* Model of the offline mutation sync engine (src/src/core/SyncEngine.ts). *)
(*                                                                         *)
(* The persisted queue is the value stored under QUEUE_KEY.  Every await   *)
(* of processQueue / handleRetry is a suspension point: a drain pass is a  *)
(* record whose pc names the await it is suspended at.  `passes` is a      *)
(* sequence so that two passes suspended at the same place stay two.       *)
(* addRequest has a single await (the storage update); it is modelled at   *)
(* the instant that update completes and its continuation runs.            *)
(***************************************************************************)
EXTENDS Integers, Sequences, FiniteSets, Bags, TLC

\* ---------------------------------------------------------------- bounds
MaxItems == 2
MaxRetry == 2
\* consecutive failures of one item followed in SpecBackoff
MaxCount == 6

\* ------------------------------------------------------- program constants
BaseDelay == 1000
MaxDelay == 30000

\* ---------------------------------------------------------------- inputs
Requests == {"r1", "r2"}
Subscribers == {"s1", "s2"}
Statuses == {200, 399, 400, 499, 500}
\* what a rejected promise (prepareHeaders, fetch) carries
Thrown == {"error", "clientErrorText", "noMessage"}
NoConfig == [prepareHeaders |-> FALSE, onSuccess |-> FALSE, onError |-> FALSE]
Configs ==
  { NoConfig,
    [prepareHeaders |-> FALSE, onSuccess |-> TRUE, onError |-> TRUE],
    [prepareHeaders |-> TRUE, onSuccess |-> TRUE, onError |-> TRUE] }

VARIABLES
  queue,        \* persisted: Seq of [id, req, retryCount]
  nextId,       \* ids handed out so far + 1 (crypto.randomUUID is fresh)
  online,       \* navigator.onLine
  isSyncing,    \* SyncEngine.isSyncing
  listeners,    \* SyncEngine.listeners
  config,       \* SyncEngine.config
  passes,       \* suspended drain passes: Seq of [pc, cur]
  timers,       \* pending setTimeout callbacks: bag of delays
  heard,        \* last value each subscriber's callback received
  submitted,    \* history: the request passed to addRequest, by id
  submits,      \* useOfflineMutation: last value submit() returned, onEnqueue calls
  fetchLog,     \* history: ids fetch was called for, in call order
  outcomes,     \* history: success / drop branches taken
  retryLog      \* history: completed handleRetry bookkeeping

vars ==
  << queue, nextId, online, isSyncing, listeners, config, passes, timers,
     heard, submitted, submits, fetchLog, outcomes, retryLog >>

\* ---------------------------------------------------------------- helpers
Min(a, b) == IF a < b THEN a ELSE b

RECURSIVE Pow2(_)
Pow2(n) == IF n = 0 THEN 1 ELSE 2 * Pow2(n - 1)

Remove(s, i) == [k \in 1..(Len(s) - 1) |-> IF k < i THEN s[k] ELSE s[k + 1]]

KeepAll(q) == q
SliceLast(q) == IF q = <<>> THEN <<>> ELSE SubSeq(q, 1, Len(q) - 1)
Slice1(q) == IF q = <<>> THEN <<>> ELSE Tail(q)

\* const currentReq = queue[0]
PeekLast(q) == q[Len(q)]
Peek(q) == q[1]

NoReq == [id |-> 0, req |-> "none", retryCount |-> 0]

NewPayload(r) == [id |-> nextId, req |-> r, retryCount |-> 0]

PrependPayload(old, payload) == <<payload>> \o old
AppendPayload(old, payload) == Append(old, payload)

\* response.ok / status classification of processQueue
Classify(status) ==
  IF status >= 200 /\ status <= 299 THEN "ok"
  ELSE IF status >= 400 /\ status < 500 THEN "client"
  ELSE "retry"

\* error.message.includes("Client Error") in the inner catch
CatchBranch(thrown) ==
  CASE thrown = "clientErrorText" -> "client"
    [] thrown = "noMessage" -> "typeError"
    [] OTHER -> "retry"

\* the updater of handleRetry
IncrementAny(old, req) ==
  IF old = <<>> THEN <<>>
  ELSE <<[old[1] EXCEPT !.retryCount = req.retryCount]>> \o Tail(old)
IncrementFromZero(old, req) ==
  IF old = <<>> THEN <<>>
  ELSE IF old[1].id # req.id THEN old
  ELSE <<[old[1] EXCEPT !.retryCount = 1]>> \o Tail(old)
IncrementHead(old, req) ==
  IF old = <<>> THEN <<>>
  ELSE IF old[1].id # req.id THEN old
  ELSE <<[old[1] EXCEPT !.retryCount = old[1].retryCount + 1]>> \o Tail(old)

BackoffPreIncrement(req) == Min(BaseDelay * Pow2(req.retryCount), MaxDelay)
BackoffDelay(req) == Min(BaseDelay * Pow2(req.retryCount + 1), MaxDelay)

\* the entry guard of processQueue
GuardNoLock(syncing, reachable) == reachable
GuardNoReach(syncing, reachable) == ~syncing
DrainGuard(syncing, reachable) == ~syncing /\ reachable

NotifyAll(v) ==
  [s \in Subscribers |-> IF v THEN "syncing" ELSE "idle"]

\* notifyListeners with isSyncing = v
Notify(v) ==
  [s \in Subscribers |->
     IF s \in listeners THEN (IF v THEN "syncing" ELSE "idle") ELSE heard[s]]

\* a call of processQueue() up to its first await, the other passes being ps:
\* the guard, isSyncing = true, and the pass suspended at get(QUEUE_KEY)
StartDrain(ps) ==
  IF DrainGuard(isSyncing, online)
  THEN /\ isSyncing' = TRUE
       /\ passes' = Append(ps, [pc |-> "get", cur |-> NoReq])
  ELSE /\ isSyncing' = isSyncing
       /\ passes' = ps

\* processQueue() called from outside a pass (its notifyListeners included)
ProcessQueue(ps) ==
  /\ StartDrain(ps)
  /\ heard' = IF DrainGuard(isSyncing, online) THEN Notify(TRUE) ELSE heard

\* useOfflineMutation.submit: what it returns, and whether options.onEnqueue
\* runs, given whether addRequest's storage write succeeded
NoSubmit == [result |-> "none", onEnqueue |-> 0]
SubmitAlwaysSucceeds(wrote) == "success"
SubmitResult(wrote) == IF wrote THEN "success" ELSE "failure"
EnqueueAlways(wrote, hasOnEnqueue) == IF hasOnEnqueue THEN 1 ELSE 0
EnqueueCalls(wrote, hasOnEnqueue) == IF wrote /\ hasOnEnqueue THEN 1 ELSE 0

\* the synchronous call fetch(currentReq.url, ...)
CallFetch(req) == fetchLog' = Append(fetchLog, req.id)

Init ==
  /\ queue = <<>>
  /\ nextId = 1
  /\ online \in BOOLEAN
  /\ isSyncing = FALSE
  /\ listeners = {}
  /\ config = NoConfig
  /\ passes = <<>>
  /\ timers = EmptyBag
  /\ heard = [s \in Subscribers |-> "none"]
  /\ submitted = <<>>
  /\ submits = NoSubmit
  /\ fetchLog = <<>>
  /\ outcomes = <<>>
  /\ retryLog = <<>>

\* The queues an earlier run of the process can have left in the store: only
\* the head has ever been attempted, so only the head can carry a retryCount.
PersistedQueues ==
  { [k \in 1..n |-> [id |-> k, req |-> rs[k],
                     retryCount |-> IF k = 1 THEN rc ELSE 0]] :
      n \in 0..MaxItems, rs \in [1..MaxItems -> Requests], rc \in 0..MaxRetry }

\* construction of the engine (page load) over whatever the store holds
InitPersisted ==
  /\ queue \in PersistedQueues
  /\ nextId = Len(queue) + 1
  /\ online \in BOOLEAN
  /\ isSyncing = FALSE
  /\ listeners = {}
  /\ config = NoConfig
  /\ passes = <<>>
  /\ timers = EmptyBag
  /\ heard = [s \in Subscribers |-> "none"]
  /\ submitted = [k \in 1..Len(queue) |-> queue[k].req]
  /\ submits = NoSubmit
  /\ fetchLog = <<>>
  /\ outcomes = <<>>
  /\ retryLog = <<>>

\* ---------------------------------------------------------- environment
SetOnline(b) ==
  /\ online # b
  /\ online' = b
  /\ UNCHANGED << queue, nextId, isSyncing, listeners, config, passes, timers,
                  heard, submitted, submits, fetchLog, outcomes, retryLog >>

\* the window "online" listener registered by the constructor
OnlineEvent ==
  /\ ProcessQueue(passes)
  /\ UNCHANGED << queue, nextId, online, listeners, config, timers,
                  submitted, submits, fetchLog, outcomes, retryLog >>

TimerFireUnchecked(d) ==
  /\ BagIn(d, timers)
  /\ timers' = timers (-) SetToBag({d})
  /\ IF ~isSyncing
     THEN /\ isSyncing' = TRUE
          /\ passes' = Append(passes, [pc |-> "get", cur |-> NoReq])
          /\ heard' = Notify(TRUE)
     ELSE UNCHANGED << isSyncing, heard, passes >>
  /\ UNCHANGED << queue, nextId, online, listeners, config,
                  submitted, submits, fetchLog, outcomes, retryLog >>

\* the setTimeout callback of handleRetry
TimerFire(d) ==
  /\ BagIn(d, timers)
  /\ timers' = timers (-) SetToBag({d})
  /\ IF online THEN ProcessQueue(passes)
     ELSE UNCHANGED << isSyncing, heard, passes >>
  /\ UNCHANGED << queue, nextId, online, listeners, config,
                  submitted, submits, fetchLog, outcomes, retryLog >>

\* ------------------------------------------------------------ public API
Configure(c) ==
  /\ config # c
  /\ config' = c
  /\ UNCHANGED << queue, nextId, online, isSyncing, listeners, passes, timers,
                  heard, submitted, submits, fetchLog, outcomes, retryLog >>

Subscribe(s) ==
  /\ s \notin listeners
  /\ listeners' = listeners \cup {s}
  /\ heard' = [heard EXCEPT ![s] = IF isSyncing THEN "syncing" ELSE "idle"]
  /\ UNCHANGED << queue, nextId, online, isSyncing, config, passes, timers,
                  submitted, submits, fetchLog, outcomes, retryLog >>

Unsubscribe(s) ==
  /\ s \in listeners
  /\ listeners' = listeners \ {s}
  /\ UNCHANGED << queue, nextId, online, isSyncing, config, passes, timers,
                  heard, submitted, submits, fetchLog, outcomes, retryLog >>

\* addRequest whose storage update resolved
AddRequestWritten(r) ==
  /\ nextId <= MaxItems
  /\ queue' = AppendPayload(queue, NewPayload(r))
  /\ nextId' = nextId + 1
  /\ submitted' = Append(submitted, r)
  /\ IF online THEN ProcessQueue(passes)
     ELSE UNCHANGED << isSyncing, heard, passes >>
  /\ UNCHANGED << online, listeners, config, timers,
                  fetchLog, outcomes, retryLog >>

\* addRequest whose storage update rejected: the rejection leaves the
\* function at the await, nothing was written
AddRequestRejected(r) ==
  UNCHANGED << queue, nextId, online, isSyncing, listeners, config, passes,
               timers, heard, submitted, fetchLog, outcomes, retryLog >>

\* a direct call of syncEngine.addRequest
AddRequest(r) ==
  /\ AddRequestWritten(r)
  /\ UNCHANGED submits

\* useOfflineMutation().submit(body, options), the storage write succeeding
\* or not
Submit(r, hasOnEnqueue, wrote) ==
  /\ IF wrote THEN AddRequestWritten(r) ELSE AddRequestRejected(r)
  /\ submits' = [result |-> SubmitResult(wrote),
                 onEnqueue |-> submits.onEnqueue + EnqueueCalls(wrote, hasOnEnqueue)]

\* ------------------------------------------------------------ drain pass
AtPc(i, pc) == i \in 1..Len(passes) /\ passes[i].pc = pc

\* the retry-class outcomes are capped so that retryCount stays bounded
MayRetry(i) == passes[i].cur.retryCount < MaxRetry

\* get(QUEUE_KEY) resolved with an empty queue
GetEmpty(i) ==
  /\ AtPc(i, "get")
  /\ queue = <<>>
  /\ isSyncing' = FALSE
  /\ heard' = Notify(FALSE)
  /\ passes' = Remove(passes, i)
  /\ UNCHANGED << queue, nextId, online, listeners, config, timers,
                  submitted, submits, fetchLog, outcomes, retryLog >>

\* get(QUEUE_KEY) resolved: peek the head, then prepareHeaders() or fetch()
GetHead(i) ==
  /\ AtPc(i, "get")
  /\ queue # <<>>
  /\ IF config.prepareHeaders
     THEN /\ passes' = [passes EXCEPT ![i] = [pc |-> "headers", cur |-> Peek(queue)]]
          /\ fetchLog' = fetchLog
     ELSE /\ passes' = [passes EXCEPT ![i] = [pc |-> "fetch", cur |-> Peek(queue)]]
          /\ CallFetch(Peek(queue))
  /\ UNCHANGED << queue, nextId, online, isSyncing, listeners, config, timers,
                  heard, submitted, submits, outcomes, retryLog >>

\* the inner catch block, entered by pass i with the given branch
InnerCatch(i, branch, why) ==
  CASE branch = "client" ->
         \* onError, then await update(slice(1))
         /\ outcomes' = Append(outcomes,
              [id |-> passes[i].cur.id, kind |-> "error", req |-> passes[i].cur.req,
               cb |-> config.onError, why |-> why])
         /\ passes' = [passes EXCEPT ![i].pc = "pop"]
         /\ UNCHANGED << isSyncing, heard >>
    [] branch = "retry" ->
         \* handleRetry(currentReq) runs to its await; finally notifyListeners()
         /\ passes' = [passes EXCEPT ![i].pc = "inc"]
         /\ heard' = Notify(isSyncing)
         /\ UNCHANGED << isSyncing, outcomes >>
    [] OTHER ->
         \* error.message.includes throws: outer catch, finally
         /\ isSyncing' = FALSE
         /\ heard' = Notify(FALSE)
         /\ passes' = Remove(passes, i)
         /\ UNCHANGED outcomes

\* prepareHeaders() resolved: fetch() is called
HeadersDone(i) ==
  /\ AtPc(i, "headers")
  /\ passes' = [passes EXCEPT ![i].pc = "fetch"]
  /\ CallFetch(passes[i].cur)
  /\ UNCHANGED << queue, nextId, online, isSyncing, listeners, config, timers,
                  heard, submitted, submits, outcomes, retryLog >>

\* prepareHeaders() rejected
HeadersThrow(i, t) ==
  /\ AtPc(i, "headers")
  /\ CatchBranch(t) = "retry" => MayRetry(i)
  /\ InnerCatch(i, CatchBranch(t), "thrown")
  /\ UNCHANGED << queue, nextId, online, listeners, config, timers,
                  submitted, submits, fetchLog, retryLog >>

\* fetch() resolved with a response
FetchResponse(i, status) ==
  /\ AtPc(i, "fetch")
  /\ Classify(status) = "retry" => MayRetry(i)
  /\ IF Classify(status) = "ok"
     THEN /\ passes' = [passes EXCEPT ![i].pc = "json"]
          /\ UNCHANGED << isSyncing, heard, outcomes >>
     ELSE InnerCatch(i, Classify(status), "status")
  /\ UNCHANGED << queue, nextId, online, listeners, config, timers,
                  submitted, submits, fetchLog, retryLog >>

\* fetch() rejected (transport failure): the platform rejects with a TypeError
\* or DOMException, whose message does not contain "Client Error"
FetchReject(i) ==
  /\ AtPc(i, "fetch")
  /\ MayRetry(i)
  /\ InnerCatch(i, CatchBranch("error"), "thrown")
  /\ UNCHANGED << queue, nextId, online, listeners, config, timers,
                  submitted, submits, fetchLog, retryLog >>

JsonDoneReleases(i) ==
  /\ AtPc(i, "json")
  /\ outcomes' = Append(outcomes,
       [id |-> passes[i].cur.id, kind |-> "success", req |-> passes[i].cur.req,
        cb |-> config.onSuccess, why |-> "status"])
  /\ passes' = [passes EXCEPT ![i].pc = "pop"]
  /\ isSyncing' = FALSE
  /\ UNCHANGED << queue, nextId, online, listeners, config, timers,
                  heard, submitted, submits, fetchLog, retryLog >>

\* response.json() settled: onSuccess, then await update(slice(1))
JsonDone(i) ==
  /\ AtPc(i, "json")
  /\ outcomes' = Append(outcomes,
       [id |-> passes[i].cur.id, kind |-> "success", req |-> passes[i].cur.req,
        cb |-> config.onSuccess, why |-> "status"])
  /\ passes' = [passes EXCEPT ![i].pc = "pop"]
  /\ UNCHANGED << queue, nextId, online, isSyncing, listeners, config, timers,
                  heard, submitted, submits, fetchLog, retryLog >>

\* update(slice(1)) resolved: this.processQueue(), then finally notifyListeners()
PopDone(i) ==
  /\ AtPc(i, "pop")
  /\ queue' = Slice1(queue)
  /\ StartDrain(Remove(passes, i))
  /\ heard' = Notify(isSyncing')
  /\ UNCHANGED << nextId, online, listeners, config, timers,
                  submitted, submits, fetchLog, outcomes, retryLog >>

IncDoneHoldGuard(i) ==
  /\ AtPc(i, "inc")
  /\ queue' = IncrementHead(queue, passes[i].cur)
  /\ timers' = timers (+) SetToBag({BackoffDelay(passes[i].cur)})
  /\ isSyncing' = isSyncing
  /\ heard' = Notify(isSyncing)
  /\ retryLog' = Append(retryLog,
       [id |-> passes[i].cur.id, delay |-> BackoffDelay(passes[i].cur),
        applied |-> (queue # <<>> /\ queue[1].id = passes[i].cur.id)])
  /\ passes' = Remove(passes, i)
  /\ UNCHANGED << nextId, online, listeners, config,
                  submitted, submits, fetchLog, outcomes >>

\* handleRetry: update(increment) resolved, guard released, timer set
IncDone(i) ==
  /\ AtPc(i, "inc")
  /\ queue' = IncrementHead(queue, passes[i].cur)
  /\ timers' = timers (+) SetToBag({BackoffDelay(passes[i].cur)})
  /\ isSyncing' = FALSE
  /\ heard' = Notify(FALSE)
  /\ retryLog' = Append(retryLog,
       [id |-> passes[i].cur.id, delay |-> BackoffDelay(passes[i].cur),
        applied |-> (queue # <<>> /\ queue[1].id = passes[i].cur.id)])
  /\ passes' = Remove(passes, i)
  /\ UNCHANGED << nextId, online, listeners, config,
                  submitted, submits, fetchLog, outcomes >>

Next ==
  \/ \E b \in BOOLEAN : SetOnline(b)
  \/ OnlineEvent
  \/ \E d \in BagToSet(timers) : TimerFire(d)
  \/ \E c \in Configs : Configure(c)
  \/ \E s \in Subscribers : Subscribe(s)
  \/ \E s \in Subscribers : Unsubscribe(s)
  \/ \E r \in Requests : AddRequest(r)
  \/ \E i \in 1..Len(passes) : GetEmpty(i)
  \/ \E i \in 1..Len(passes) : GetHead(i)
  \/ \E i \in 1..Len(passes) : HeadersDone(i)
  \/ \E i \in 1..Len(passes), t \in Thrown : HeadersThrow(i, t)
  \/ \E i \in 1..Len(passes), st \in Statuses : FetchResponse(i, st)
  \/ \E i \in 1..Len(passes) : FetchReject(i)
  \/ \E i \in 1..Len(passes) : JsonDone(i)
  \/ \E i \in 1..Len(passes) : PopDone(i)
  \/ \E i \in 1..Len(passes) : IncDone(i)

Spec == Init /\ [][Next]_vars

\* a run of the process started over a store left by earlier runs
SpecPersisted == InitPersisted /\ [][Next]_vars

\* The "online event" test: requests are enqueued while offline, the network
\* becomes reachable, the online event fires, every fetch answers 200.
InitOffline == Init /\ ~online

NextOfflineDrain ==
  \/ \E r \in Requests : ~online /\ AddRequest(r)
  \/ SetOnline(TRUE)
  \/ OnlineEvent
  \/ \E c \in Configs : Configure(c)
  \/ \E s \in Subscribers : Subscribe(s)
  \/ \E s \in Subscribers : Unsubscribe(s)
  \/ \E i \in 1..Len(passes) : GetEmpty(i)
  \/ \E i \in 1..Len(passes) : GetHead(i)
  \/ \E i \in 1..Len(passes) : HeadersDone(i)
  \/ \E i \in 1..Len(passes) : FetchResponse(i, 200)
  \/ \E i \in 1..Len(passes) : JsonDone(i)
  \/ \E i \in 1..Len(passes) : PopDone(i)

SpecOfflineDrain == InitOffline /\ [][NextOfflineDrain]_vars

\* The network stays reachable and every rejection carries a message, so each
\* item is answered with success or 4xx after at most MaxRetry retry-class
\* failures.  Pending promises settle and pending timers expire.
InitOnline == Init /\ online

PassStep ==
  \E i \in 1..Len(passes) :
    \/ GetEmpty(i)
    \/ GetHead(i)
    \/ HeadersDone(i)
    \/ \E t \in {"error", "clientErrorText"} : HeadersThrow(i, t)
    \/ \E st \in Statuses : FetchResponse(i, st)
    \/ FetchReject(i)
    \/ JsonDone(i)
    \/ PopDone(i)
    \/ IncDone(i)

TimerStep == \E d \in BagToSet(timers) : TimerFire(d)

NextReachable ==
  \/ OnlineEvent
  \/ TimerStep
  \/ \E c \in Configs : Configure(c)
  \/ \E s \in Subscribers : Subscribe(s)
  \/ \E s \in Subscribers : Unsubscribe(s)
  \/ \E r \in Requests : AddRequest(r)
  \/ PassStep

SpecReachableFair ==
  /\ InitOnline
  /\ [][NextReachable]_vars
  /\ WF_vars(PassStep)
  /\ WF_vars(TimerStep)

\* Requests enter through the useOfflineMutation hook, and the storage write
\* of addRequest may fail.
NextSubmit ==
  \/ \E b \in BOOLEAN : SetOnline(b)
  \/ OnlineEvent
  \/ TimerStep
  \/ \E c \in Configs : Configure(c)
  \/ \E r \in Requests, e \in BOOLEAN, w \in BOOLEAN : Submit(r, e, w)
  \/ \E i \in 1..Len(passes) : GetEmpty(i)
  \/ \E i \in 1..Len(passes) : GetHead(i)
  \/ \E i \in 1..Len(passes) : HeadersDone(i)
  \/ \E i \in 1..Len(passes), t \in Thrown : HeadersThrow(i, t)
  \/ \E i \in 1..Len(passes), st \in Statuses : FetchResponse(i, st)
  \/ \E i \in 1..Len(passes) : FetchReject(i)
  \/ \E i \in 1..Len(passes) : JsonDone(i)
  \/ \E i \in 1..Len(passes) : PopDone(i)
  \/ \E i \in 1..Len(passes) : IncDone(i)

SpecSubmit == Init /\ [][NextSubmit]_vars

\* One item that keeps being answered with a server error: each backoff timer
\* expires with the network reachable and the next attempt fails again.
\* fetch() resolved with status 500, up to MaxCount times
ServerError(i) ==
  /\ AtPc(i, "fetch")
  /\ passes[i].cur.retryCount < MaxCount
  /\ InnerCatch(i, Classify(500), "status")
  /\ UNCHANGED << queue, nextId, online, listeners, config, timers,
                  submitted, submits, fetchLog, retryLog >>

NextBackoff ==
  \/ \E r \in Requests : nextId = 1 /\ AddRequest(r)
  \/ TimerStep
  \/ \E c \in Configs : Configure(c)
  \/ \E i \in 1..Len(passes) : GetHead(i)
  \/ \E i \in 1..Len(passes) : HeadersDone(i)
  \/ \E i \in 1..Len(passes) : ServerError(i)
  \/ \E i \in 1..Len(passes) : IncDone(i)

SpecBackoff == InitOnline /\ [][NextBackoff]_vars

\* ------------------------------------------------------------------------
\* Properties
\* ------------------------------------------------------------------------
Ids(q) == {q[k].id : k \in 1..Len(q)}
InFlight(pcs) == {i \in 1..Len(passes) : passes[i].pc \in pcs}
CountIn(log, id) == Cardinality({k \in 1..Len(log) : log[k].id = id})

\* C1: a fetch is only ever in flight for the item at the head of the
\* persisted queue, and no item still queued was enqueued before it; this
\* holds for a process started over any queue an earlier run left behind.
C1_FetchOnlyHead ==
  /\ \A i \in InFlight({"headers", "fetch", "json"}) :
       /\ queue # <<>>
       /\ queue[1] = passes[i].cur
       /\ \A k \in 1..Len(queue) : queue[k].id >= passes[i].cur.id
  /\ \A k \in 1..Len(queue), j \in 1..Len(queue) :
       k < j => queue[k].id < queue[j].id

\* C1 witness: a retried head is being fetched while a later item waits
C1_Witness ==
  \E i \in InFlight({"fetch"}) :
    /\ passes[i].cur.retryCount >= 1
    /\ Len(queue) >= 2
    /\ Len(fetchLog) >= 2

\* C4: at most one drain pass (get, prepareHeaders, fetch, json, queue
\* update of processQueue or handleRetry) is outstanding at any time, and
\* isSyncing is true while it is.
C4_SingleInFlight ==
  /\ Len(passes) <= 1
  /\ passes # <<>> => isSyncing

\* C4 witness: a fetch in flight while two backoff timers are pending
C4_Witness ==
  /\ InFlight({"fetch"}) # {}
  /\ BagCardinality(timers) >= 2
  /\ Len(queue) >= 2

Fetches(id) == Cardinality({k \in 1..Len(fetchLog) : fetchLog[k] = id})

\* C5: every success branch passes the request as it was submitted, is the
\* only outcome the item ever gets (so onSuccess runs exactly once when it
\* is configured, after one fetch and at most one more per earlier retry), and
\* once the queue update has completed the item is no longer persisted.
C5_SuccessOnceAndRemoved ==
  /\ \A k \in 1..Len(outcomes) :
       outcomes[k].kind = "success" =>
         /\ outcomes[k].req = submitted[outcomes[k].id]
         /\ CountIn(outcomes, outcomes[k].id) = 1
         /\ Fetches(outcomes[k].id) >= 1
         /\ Fetches(outcomes[k].id) <= CountIn(retryLog, outcomes[k].id) + 1
         /\ (\A i \in InFlight({"pop"}) : passes[i].cur.id # outcomes[k].id)
              => outcomes[k].id \notin Ids(queue)
  /\ \A i \in InFlight({"pop"}) : CountIn(outcomes, passes[i].cur.id) = 1

\* C5 witness: one request enqueued while online was delivered, onSuccess was
\* called for it and the queue is empty again
C5_Witness ==
  /\ Len(submitted) = 1
  /\ Len(outcomes) = 1
  /\ outcomes[1].kind = "success"
  /\ outcomes[1].cb
  /\ fetchLog = <<1>>
  /\ queue = <<>>
  /\ passes = <<>>

RetryRank(k) == Cardinality({j \in 1..k : retryLog[j].id = retryLog[k].id})

C8_OfflineEnqueueAppends ==
  [][ (~online /\ submitted' # submitted) =>
        \E r \in Requests :
          /\ submitted' = Append(submitted, r)
          /\ queue' = Append(queue, [id |-> Len(submitted'), req |-> r, retryCount |-> 0])
          /\ Len(submitted') \notin Ids(queue)
          /\ passes' = passes
          /\ fetchLog' = fetchLog ]_vars

\* C8 witness: two different requests enqueued offline, in submission order
C8_Witness ==
  /\ ~online
  /\ fetchLog = <<>>
  /\ Len(queue) = 2
  /\ queue[1].req = "r2"
  /\ queue[2].req = "r1"
  /\ submitted = <<"r2", "r1">>

\* C9: from a state with the network unreachable and no pass outstanding, no
\* step (addRequest, online listener, timer expiry, ...) starts a pass, calls
\* fetch, takes the guard, or changes an item that is queued.
C9_NoAttemptOffline ==
  [][ (~online /\ passes = <<>>) =>
        /\ passes' = <<>>
        /\ fetchLog' = fetchLog
        /\ isSyncing' = isSyncing
        /\ Len(queue') >= Len(queue)
        /\ \A k \in 1..Len(queue) : queue'[k] = queue[k] ]_vars

\* C9 witness: offline, idle, an item queued and a backoff timer pending
C9_Witness ==
  /\ ~online
  /\ passes = <<>>
  /\ ~isSyncing
  /\ queue # <<>>
  /\ timers # EmptyBag
  /\ nextId <= MaxItems

\* C2: in the offline-then-online scenario with every delivery successful,
\* once deliveries have started and no pass is outstanding, every queued
\* item has been fetched exactly once, in enqueue order, and the queue is
\* empty.
C2_OnlineDrainsAllInOrder ==
  (online /\ passes = <<>> /\ fetchLog # <<>>) =>
    /\ queue = <<>>
    /\ fetchLog = [k \in 1..Len(submitted) |-> k]

\* C3: listeners hear true while a pass is outstanding, and once no pass is
\* outstanding isSyncing is false and the listeners have heard false.
C3_GuardReleasedAfterPass ==
  /\ \A i \in InFlight({"get", "headers", "fetch", "json", "pop"}) :
       isSyncing /\ \A s \in listeners : heard[s] = "syncing"
  /\ passes = <<>> =>
       ~isSyncing /\ \A s \in listeners : heard[s] = "idle"

\* C6: when the queue update that drops a head answered with 4xx completes,
\* the item is gone, it has exactly one onError outcome, and if another item
\* is queued (network reachable) the same step goes on to attempt it.
C6_DropThenNextAttempted ==
  [][ ( /\ passes # <<>>
        /\ passes[1].pc = "pop"
        /\ queue # <<>>
        /\ queue' = Tail(queue)
        /\ \E k \in 1..Len(outcomes) :
             /\ outcomes[k].id = passes[1].cur.id
             /\ outcomes[k].kind = "error"
             /\ outcomes[k].why = "status" ) =>
      ( /\ passes[1].cur.id \notin Ids(queue')
        /\ CountIn(outcomes', passes[1].cur.id) = 1
        /\ (queue' # <<>> /\ online) =>
             \E j \in 1..Len(passes') : passes'[j].pc = "get" ) ]_vars

\* C10: with the network reachable, deliveries that end in success or 4xx
\* after finitely many failures, and fair scheduling, the queue is
\* eventually empty for good (enqueues stop after MaxItems).
C10_EventuallyDrained == <>[](queue = <<>>)

C14_ReadmeBackoff ==
  \A k \in 1..Len(retryLog) :
    retryLog[k].delay = (IF k <= 5 THEN 1000 * (2 ^ (k - 1)) ELSE 30000)

\* C12: a submit whose storage write fails returns {success: false}, leaves
\* the persisted queue, the guard and the passes as they were and calls
\* neither fetch nor onEnqueue; a submit whose write succeeds returns
\* {success: true} with the item queued at the tail and not yet fetched.
C12_EnqueueFailureSurfaced ==
  [][ submits' # submits =>
        IF submits'.result = "failure"
        THEN /\ queue' = queue
             /\ submitted' = submitted
             /\ passes' = passes
             /\ isSyncing' = isSyncing
             /\ fetchLog' = fetchLog
             /\ submits'.onEnqueue = submits.onEnqueue
        ELSE /\ submits'.result = "success"
             /\ Len(queue') = Len(queue) + 1
             /\ queue'[Len(queue')].id = Len(submitted')
             /\ queue'[Len(queue')].retryCount = 0
             /\ \A k \in 1..Len(fetchLog') : fetchLog'[k] # Len(submitted')
             /\ CountIn(outcomes', Len(submitted')) = 0
             /\ submits'.onEnqueue \in {submits.onEnqueue, submits.onEnqueue + 1} ]_vars

\* C12 witness: after a submit that was queued and ran onEnqueue, a further
\* submit failed with the network reachable and no pass outstanding
C12_Witness ==
  /\ submits = [result |-> "failure", onEnqueue |-> 1]
  /\ Len(queue) = 1
  /\ online
  /\ ~isSyncing
  /\ passes = <<>>

\* C13: whatever prepareHeaders throws, the attempt ends in the retry path:
\* the pass goes on to increment the item's retryCount, the item stays queued
\* and no outcome callback runs; and an item is dropped with onError only on
\* a 4xx answer.
C13_ThrownErrorsRetried ==
  [][ /\ \A i \in 1..Len(passes) :
           (passes[i].pc = "headers" /\ passes' # passes /\ fetchLog' = fetchLog)
             => /\ Len(passes') = Len(passes)
                /\ passes'[i] = [pc |-> "inc", cur |-> passes[i].cur]
                /\ outcomes' = outcomes
      /\ \A k \in 1..Len(outcomes') :
           outcomes'[k].kind = "error" => outcomes'[k].why = "status" ]_vars

\* C15: an expiring backoff timer removes itself and sets no new one, leaves
\* the queue alone and makes no attempt; it starts a drain pass exactly when
\* the network is reachable (and no pass holds the guard). A retried head
\* left waiting with no pass running can be picked up by an online event,
\* and the pass that starts reads the head of the queue.
C15_TimerRechecksReachability ==
  [][ /\ (timers' # timers /\ retryLog' = retryLog) =>
           /\ \E d \in BagToSet(timers) : timers' = timers (-) SetToBag({d})
           /\ queue' = queue
           /\ fetchLog' = fetchLog
           /\ outcomes' = outcomes
           /\ IF online /\ ~isSyncing
              THEN /\ passes' = Append(passes, [pc |-> "get", cur |-> NoReq])
                   /\ isSyncing'
              ELSE /\ passes' = passes
                   /\ isSyncing' = isSyncing
      /\ (queue # <<>> /\ queue[1].retryCount >= 1 /\ passes = <<>> /\ online)
           => ENABLED (OnlineEvent /\ passes' # passes)
      /\ \A i \in 1..Len(passes) :
           (passes[i].pc = "get" /\ passes' # passes /\ queue # <<>>)
             => passes'[i] = [pc |-> "headers", cur |-> queue[1]]
                  \/ (passes'[i].pc = "fetch" /\ passes'[i].cur = queue[1]) ]_vars

\* C15 witness: the head was attempted once and retried, its timer has
\* expired, the network is unreachable and nothing further happened
C15_Witness ==
  /\ ~online
  /\ timers = EmptyBag
  /\ Len(retryLog) = 1
  /\ fetchLog = << 1 >>
  /\ passes = <<>>
  /\ ~isSyncing
  /\ queue # <<>>
  /\ queue[1].id = 1
  /\ queue[1].retryCount = 1

\* C16: the step that schedules a backoff timer releases the guard; while the
\* retried head waits for its timer with no pass running the guard is free,
\* so an online event can start a pass, and an addRequest made while the
\* network is reachable starts one, the timer still pending.
C16_GuardFreeDuringBackoff ==
  [][ /\ retryLog' # retryLog =>
           /\ ~isSyncing'
           /\ passes' = <<>>
           /\ BagCardinality(timers') = BagCardinality(timers) + 1
      /\ (timers # EmptyBag /\ passes = <<>> /\ queue # <<>> /\ queue[1].retryCount >= 1) =>
           /\ ~isSyncing
           /\ online => ENABLED (OnlineEvent /\ isSyncing' /\ Len(passes') = 1)
           /\ (submitted' # submitted /\ online) =>
                /\ passes' = << [pc |-> "get", cur |-> NoReq] >>
                /\ isSyncing'
                /\ timers' = timers ]_vars

\* C16 witness: the head is attempted again after a retry while every backoff
\* timer set so far is still pending
C16_Witness ==
  /\ Len(passes) = 1
  /\ passes[1].pc = "fetch"
  /\ passes[1].cur.retryCount >= 1
  /\ passes[1].cur = queue[1]
  /\ Len(fetchLog) >= 2
  /\ retryLog # <<>>
  /\ BagCardinality(timers) = Len(retryLog)

\* retries of item id that handleRetry wrote to the queue
AppliedRetries(id) ==
  Cardinality({j \in 1..Len(retryLog) : retryLog[j].id = id /\ retryLog[j].applied})

\* C17: a queued item keeps its id and its request; its retryCount is the
\* number of retries handleRetry has applied to it, so it starts at 0, never
\* decreases and grows by one per retry; a retry changes the queue only by
\* incrementing the head, and only if the head is the attempted item.
C17_RetryCountMonotonic ==
  [][ /\ \A k \in 1..Len(queue) :
           /\ queue[k].req = submitted[queue[k].id]
           /\ queue[k].retryCount = AppliedRetries(queue[k].id)
           /\ \A j \in 1..Len(queue) : queue[j].id = queue[k].id => j = k
      /\ \A k \in 1..Len(queue), j \in 1..Len(queue') :
           queue'[j].id = queue[k].id =>
             /\ queue'[j].req = queue[k].req
             /\ queue'[j].retryCount \in {queue[k].retryCount, queue[k].retryCount + 1}
             /\ queue'[j].retryCount # queue[k].retryCount =>
                  /\ k = 1 /\ j = 1
                  /\ Len(retryLog') = Len(retryLog) + 1
                  /\ retryLog'[Len(retryLog')].id = queue[1].id
      /\ \A i \in 1..Len(passes) :
           (passes[i].pc = "inc" /\ passes' # passes) =>
             /\ Len(retryLog') = Len(retryLog) + 1
             /\ retryLog'[Len(retryLog')].id = passes[i].cur.id
             /\ IF queue # <<>> /\ queue[1].id = passes[i].cur.id
                THEN queue' = << [queue[1] EXCEPT !.retryCount = queue[1].retryCount + 1] >>
                                 \o Tail(queue)
                ELSE queue' = queue ]_vars

\* C17 witness: the head has been retried twice while a later item waits
\* behind it untouched
C17_Witness ==
  /\ Len(queue) = 2
  /\ queue[1].id = 1
  /\ queue[1].retryCount = 2
  /\ queue[2].retryCount = 0
  /\ Len(retryLog) = 2
  /\ passes = <<>>

\* C18: after every step each subscribed callback has last been called with
\* the value isSyncing now has (the immediate call of subscribe included),
\* and a callback that is not subscribed after the step was not called by it.
C18_SubscribersTrackGuard ==
  [][ /\ \A s \in listeners' :
           heard'[s] = (IF isSyncing' THEN "syncing" ELSE "idle")
      /\ \A s \in Subscribers \ listeners' : heard'[s] = heard[s] ]_vars

\* C18 witness: s2 unsubscribed while the engine was idle and has not been
\* called since, although a pass has started and s1 heard it
C18_Witness ==
  /\ listeners = {"s1"}
  /\ isSyncing
  /\ heard["s1"] = "syncing"
  /\ heard["s2"] = "idle"

\* C19: a step changes the persisted queue only by appending one new item
\* at the tail, by removing the head, or by adding one to the head's
\* retryCount; every other item keeps its place and its content.
C19_QueueFrame ==
  [][ \/ queue' = queue
      \/ /\ Len(submitted') = Len(submitted) + 1
         /\ queue' = Append(queue, [id |-> Len(submitted'),
                                    req |-> submitted'[Len(submitted')],
                                    retryCount |-> 0])
      \/ /\ queue # <<>>
         /\ queue' = Tail(queue)
         /\ \E i \in 1..Len(passes) : passes[i].pc = "pop" /\ passes[i].cur.id = queue[1].id
      \/ /\ queue # <<>>
         /\ queue' = << [queue[1] EXCEPT !.retryCount = queue[1].retryCount + 1] >>
                          \o Tail(queue)
         /\ \E i \in 1..Len(passes) : passes[i].pc = "inc" /\ passes[i].cur.id = queue[1].id
    ]_vars

\* C19 witness: the first item was retried and then left the queue, and the
\* item enqueued behind it is now the head, as it was enqueued
C19_Witness ==
  /\ Len(submitted) = 2
  /\ queue = << [id |-> 2, req |-> submitted[2], retryCount |-> 0] >>
  /\ retryLog # <<>>
  /\ Len(outcomes) = 1
  /\ outcomes[1].id = 1
  /\ passes = <<>>

\* C20: an item gets at most one success response and at most one outcome
\* callback; every attempt is made for an item that is in the persisted queue
\* and has not been answered; an answered item is removed by the pass that
\* got the answer, and nothing is attempted in between.
C20_NoDuplicateDelivery ==
  [][ /\ \A id \in 1..Len(submitted) :
           /\ CountIn(outcomes, id)
                + Cardinality({i \in 1..Len(passes) :
                                 passes[i].pc = "json" /\ passes[i].cur.id = id}) <= 1
           /\ CountIn(outcomes, id) = 1 =>
                \/ id \notin Ids(queue)
                \/ /\ queue[1].id = id
                   /\ passes = << [pc |-> "pop", cur |-> passes[1].cur] >>
                   /\ passes[1].cur.id = id
      /\ \A i \in 1..Len(passes) :
           passes[i].pc \in {"headers", "fetch", "json", "inc"} =>
             /\ passes[i].cur.id \in Ids(queue)
             /\ CountIn(outcomes, passes[i].cur.id) = 0
      /\ fetchLog' # fetchLog =>
           /\ Len(fetchLog') = Len(fetchLog) + 1
           /\ fetchLog'[Len(fetchLog')] = queue[1].id
           /\ queue' = queue
           /\ CountIn(outcomes, queue[1].id) = 0 ]_vars

\* C20 witness: the first item was retried and then delivered on a later
\* attempt; its backoff timer is still pending and the item is gone
C20_Witness ==
  /\ timers # EmptyBag
  /\ Len(outcomes) = 1
  /\ outcomes[1].id = 1
  /\ outcomes[1].kind = "success"
  /\ 1 \notin Ids(queue)
  /\ Fetches(1) >= 2
  /\ passes = <<>>
====
